---- MODULE Spec2Model ----
(***************************************************************************)
(* Model of the typestate pipeline of realsense-rust: src/src/pipeline.rs  *)
(* and src/src/config.rs over a call-counting double of the native layer.  *)
(*                                                                         *)
(* Native handles are the numbers 1..Len(native.kinds), in allocation      *)
(* order; 0 is the null pointer / Option::None.  A Rust value that owns a  *)
(* handle is an element of contexts, configs or pipes; dropping a value    *)
(* issues the native destroy call of its Drop impl.                        *)
(***************************************************************************)
EXTENDS Integers, Sequences, FiniteSets, TLC

\* ------------------------------------------------------------------ bounds
MaxHandles == 4        \* native handles the double hands out in one run
MaxTimeouts == 2       \* timeout responses the double gives to one wait call
NumFrames == 1         \* distinct frame pointers the double returns

\* ------------------------------------------------------- program constants
RS2_DEFAULT_TIMEOUT == 15000     \* sys::RS2_DEFAULT_TIMEOUT, in milliseconds

NULL == 0

\* Option<Duration>: a duration is hi * 2^32 + lo milliseconds, lo < 2^32.
None == [some |-> FALSE, hi |-> 0, lo |-> 0]
Millis(hi, lo) == [some |-> TRUE, hi |-> hi, lo |-> lo]
Durations == {Millis(0, 1000)}
Timeouts == {None} \cup Durations
Frames == 1..NumFrames

VARIABLES
    native,     \* the native layer: handle kinds, destroy log, started pipelines, misuse
    contexts,   \* Context values owned by the caller (their handles)
    configs,    \* Config values owned by the caller (their handles)
    raws,       \* raw config addresses handed out by Config::into_raw
    pipes,      \* Pipeline<State> values owned by the caller
    call,       \* the call the caller is inside (a blocking wait, or an awaited future;
                \* a start_async future keeps the native state at its entry), or
                \* where a run of the build script is
    workers,    \* worker threads spawned by start_async / wait_async
    last        \* what the last completed operation or build run returned

vars == <<native, contexts, configs, raws, pipes, call, workers, last>>

NoCall == [op |-> "none"]
NoOp == [op |-> "none"]

\* ------------------------------------------------------------ native layer
\* The native library is an external collaborator; this is the call-counting
\* double the properties are stated against.

Handles(N) == 1..Len(N.kinds)

Range(s) == {s[i] : i \in 1..Len(s)}

\* Number of native destroy calls issued so far for handle h.
Destroys(N, h) == Cardinality({i \in 1..Len(N.deleted) : N.deleted[i] = h})

HasRoom(N) == Len(N.kinds) < MaxHandles

\* A native call takes handle h as an argument: it must not have been destroyed.
NUse(N, h, what) ==
    IF h \in Range(N.deleted)
    THEN [N EXCEPT !.misuse = @ \cup {<<what, "destroyed">>}]
    ELSE N

\* rs2_create_context / rs2_create_config / rs2_create_pipeline, success:
\* a fresh handle of the kind.
NCreate(N, kind) == [N EXCEPT !.kinds = Append(@, kind)]

\* The destroy calls issued since the destroy log of N had length k.
Mark(N) == Len(N.deleted)
DestroyedSince(k, N) == SubSeq(N.deleted, k + 1, Len(N.deleted))

NewHandle(N) == Len(N.kinds) + 1

\* rs2_delete_context / rs2_delete_config / rs2_delete_pipeline /
\* rs2_delete_pipeline_profile: one destroy call for h.
NDelete(N, h) ==
    [N EXCEPT !.deleted = Append(@, h), !.started = @ \ {h}]

\* rs2_pipeline_start / rs2_pipeline_start_with_config (cfg = NULL: without).
\* ok: the pipeline is started and a fresh profile handle is returned.
NStart(N, p, cfg, ok) ==
    LET N1 == NUse(N, p, "start")
        N2 == IF cfg = NULL THEN N1 ELSE NUse(N1, cfg, "start")
        N3 == IF p \in N.started
              THEN [N2 EXCEPT !.misuse = @ \cup {<<"start", "started">>}]
              ELSE N2
        N4 == [N3 EXCEPT !.lastcall =
                  IF cfg = NULL THEN <<"rs2_pipeline_start", p>>
                  ELSE <<"rs2_pipeline_start_with_config", p, cfg>>]
    IN  IF ok
        THEN [N4 EXCEPT !.kinds = Append(@, "profile"), !.started = @ \cup {p}]
        ELSE N4

\* rs2_pipeline_stop.
NStop(N, p, ok) ==
    LET N1 == NUse(N, p, "stop")
        N2 == IF p \in N.started
              THEN N1
              ELSE [N1 EXCEPT !.misuse = @ \cup {<<"stop", "not started">>}]
        N3 == [N2 EXCEPT !.lastcall = <<"rs2_pipeline_stop", p>>]
    IN  IF ok THEN [N3 EXCEPT !.started = @ \ {p}] ELSE N3

\* rs2_pipeline_wait_for_frames / rs2_pipeline_poll_for_frames: the double
\* only counts misuse; the response is the caller's input.
NWait(N, p, what, arg) ==
    LET N1 == NUse(N, p, what)
        N2 == [N1 EXCEPT !.lastcall = <<what, p, arg>>]
    IN  IF p \in N.started
        THEN N2
        ELSE [N2 EXCEPT !.misuse = @ \cup {<<what, "not started">>}]

\* ErrorChecker::check: Ok iff the error slot is empty.
Check(resp) == IF resp = "ok" THEN "Ok" ELSE IF resp = "timeout" THEN "Timeout" ELSE "Err"

\* -------------------------------------------------------------- Context

\* Context::new
ContextNew ==
    /\ call = NoCall
    /\ \E ok \in BOOLEAN :
        IF ok
        THEN /\ HasRoom(native)
             /\ native' = NCreate(native, "context")
             /\ contexts' = contexts \cup {NewHandle(native)}
             /\ last' = [op |-> "Context::new", res |-> "Ok", h |-> NewHandle(native)]
        ELSE /\ UNCHANGED <<native, contexts>>
             /\ last' = [op |-> "Context::new", res |-> "Err", h |-> NULL]
    /\ UNCHANGED <<configs, raws, pipes, call, workers>>

\* impl Drop for Context
DropContext(N, c) == NDelete(N, c)

ContextDrop ==
    /\ call = NoCall
    /\ \E c \in contexts :
        /\ native' = DropContext(native, c)
        /\ contexts' = contexts \ {c}
        /\ last' = [op |-> "drop(Context)", res |-> "Ok", h |-> c]
    /\ UNCHANGED <<configs, raws, pipes, call, workers>>

\* --------------------------------------------------------------- Config

\* Config::new
ConfigNew ==
    /\ call = NoCall
    /\ \E ok \in BOOLEAN :
        IF ok
        THEN /\ HasRoom(native)
             /\ native' = NCreate(native, "config")
             /\ configs' = configs \cup {NewHandle(native)}
             /\ last' = [op |-> "Config::new", res |-> "Ok", h |-> NewHandle(native)]
        ELSE /\ UNCHANGED <<native, configs>>
             /\ last' = [op |-> "Config::new", res |-> "Err", h |-> NULL]
    /\ UNCHANGED <<contexts, raws, pipes, call, workers>>

\* impl Drop for Config
DropConfig(N, c) == NDelete(N, c)

\* Option<Config> dropped
DropConfigOpt(N, c) == IF c = NULL THEN N ELSE DropConfig(N, c)

ConfigDrop ==
    /\ call = NoCall
    /\ \E c \in configs :
        /\ native' = DropConfig(native, c)
        /\ configs' = configs \ {c}
        /\ last' = [op |-> "drop(Config)", res |-> "Ok", h |-> c,
                    rewrapped |-> (last.op = "Config::from_raw" /\ last.h = c)]
    /\ UNCHANGED <<contexts, raws, pipes, call, workers>>

EnableOps == {"enable_stream", "enable_device_from_serial", "enable_device_from_file"}

\* Variant of ConfigEnable that gives the handle up before the check, so
\* that a failed call leaves it undestroyed.
ConfigEnableLeaking ==
    /\ call = NoCall
    /\ \E c \in configs, which \in EnableOps, resp \in {"ok", "error"} :
        /\ native' = NUse(native, c, which)
        /\ configs' = IF Check(resp) = "Ok" THEN configs ELSE configs \ {c}
        /\ last' = [op |-> which, res |-> IF Check(resp) = "Ok" THEN "Ok" ELSE "Err",
                    h |-> c, resp |-> resp,
                    destroyed |-> DestroyedSince(Mark(native), native')]
    /\ UNCHANGED <<contexts, raws, pipes, call, workers>>

\* Config::enable_stream / enable_device_from_serial / enable_device_from_file:
\* the native call, check()?, Ok(self).
ConfigEnable ==
    /\ call = NoCall
    /\ \E c \in configs, which \in EnableOps, resp \in {"ok", "error"} :
        IF Check(resp) = "Ok"
        THEN /\ native' = NUse(native, c, which)
             /\ configs' = configs
             /\ last' = [op |-> which, res |-> "Ok", h |-> c, resp |-> resp,
                         destroyed |-> DestroyedSince(Mark(native), native')]
        ELSE /\ native' = DropConfig(NUse(native, c, which), c)
             /\ configs' = configs \ {c}
             /\ last' = [op |-> which, res |-> "Err", h |-> c, resp |-> resp,
                         destroyed |-> DestroyedSince(Mark(native), native')]
    /\ UNCHANGED <<contexts, raws, pipes, call, workers>>

\* Variant of ConfigIntoRaw without mem::forget(self): the destructor runs.
ConfigIntoRawDropping ==
    /\ call = NoCall
    /\ \E c \in configs :
        /\ native' = DropConfig(native, c)
        /\ configs' = configs \ {c}
        /\ raws' = raws \cup {c}
        /\ last' = [op |-> "Config::into_raw", res |-> "Ok", h |-> c]
    /\ UNCHANGED <<contexts, pipes, call, workers>>

\* Config::into_raw: mem::forget(self), the address is returned.
ConfigIntoRaw ==
    /\ call = NoCall
    /\ \E c \in configs :
        /\ configs' = configs \ {c}
        /\ raws' = raws \cup {c}
        /\ last' = [op |-> "Config::into_raw", res |-> "Ok", h |-> c]
    /\ UNCHANGED <<native, contexts, pipes, call, workers>>

\* Config::from_raw on an address into_raw returned.
ConfigFromRaw ==
    /\ call = NoCall
    /\ \E r \in raws :
        /\ raws' = raws \ {r}
        /\ configs' = configs \cup {r}
        /\ last' = [op |-> "Config::from_raw", res |-> "Ok", h |-> r]
    /\ UNCHANGED <<native, contexts, pipes, call, workers>>

\* ------------------------------------------------------------- Pipeline
\* A Pipeline<State> value: ptr, context, and the state's fields
\* (Inactive: none; Active: profile and Option<Config>).

NoValue == [state |-> "none"]

InactiveValue(ptr, context) ==
    [ptr |-> ptr, context |-> context, state |-> "Inactive",
     profile |-> NULL, config |-> NULL]

ActiveValue(ptr, context, profile, config) ==
    [ptr |-> ptr, context |-> context, state |-> "Active",
     profile |-> profile, config |-> config]

\* impl Drop for PipelineProfile
DropProfile(N, pr) == NDelete(N, pr)

\* Field teardown of pipeline_kind::Active { profile, config }.
DropActive(N, profile, config) == DropConfigOpt(DropProfile(N, profile), config)

\* impl Drop for Pipeline<State>: rs2_delete_pipeline(self.ptr), then the
\* fields are torn down in declaration order: context, state.
DropPipeline(N, pv) ==
    LET N1 == NDelete(N, pv.ptr)
        N2 == DropContext(N1, pv.context)
    IN  IF pv.state = "Active" THEN DropActive(N2, pv.profile, pv.config) ELSE N2

\* Variant of InactiveIntoRawParts without mem::forget(self): the destructor
\* of self runs although its handles were handed out.
InactiveIntoRawPartsDropping(N, pv) ==
    [native |-> DropPipeline(N, pv), ptr |-> pv.ptr, context |-> pv.context]

\* InactivePipeline::into_raw_parts: the fields are taken and self is
\* forgotten, so no destructor runs.
InactiveIntoRawParts(N, pv) ==
    [native |-> N, ptr |-> pv.ptr, context |-> pv.context]

\* Variant of ActiveIntoRawParts without mem::forget(self).
ActiveIntoRawPartsDropping(N, pv) ==
    [native |-> DropPipeline(N, pv), ptr |-> pv.ptr, context |-> pv.context,
     profile |-> pv.profile, config |-> pv.config]

\* ActivePipeline::into_raw_parts: likewise, with the state's raw parts.
ActiveIntoRawParts(N, pv) ==
    [native |-> N, ptr |-> pv.ptr, context |-> pv.context,
     profile |-> pv.profile, config |-> pv.config]

\* Variant of FromContextResult whose failure path does not let go of
\* the context.
FromContextResultLeaking(N, c, resp) ==
    LET N1 == NUse(N, c, "rs2_create_pipeline")
    IN  IF Check(resp) = "Ok"
        THEN [native |-> NCreate(N1, "pipeline"), res |-> "Ok",
              value |-> InactiveValue(NewHandle(N1), c)]
        ELSE [native |-> N1, res |-> "Err", value |-> NoValue]

\* InactivePipeline::from_context: rs2_create_pipeline, check()?, the value.
\* On failure the context, owned by the call, is dropped.
FromContextResult(N, c, resp) ==
    LET N1 == NUse(N, c, "rs2_create_pipeline")
    IN  IF Check(resp) = "Ok"
        THEN [native |-> NCreate(N1, "pipeline"), res |-> "Ok",
              value |-> InactiveValue(NewHandle(N1), c)]
        ELSE [native |-> DropContext(N1, c), res |-> "Err", value |-> NoValue]

FromContext ==
    /\ call = NoCall
    /\ \E c \in contexts, resp \in {"ok", "error"} :
        LET r == FromContextResult(native, c, resp) IN
        /\ resp = "ok" => HasRoom(native)
        /\ native' = r.native
        /\ contexts' = contexts \ {c}
        /\ pipes' = IF r.res = "Ok" THEN pipes \cup {r.value} ELSE pipes
        /\ last' = [op |-> "from_context", res |-> r.res, ctx |-> c, value |-> r.value,
                    resp |-> resp,
                    destroyed |-> DestroyedSince(Mark(native), r.native)]
    /\ UNCHANGED <<configs, raws, call, workers>>

\* InactivePipeline::new: Context::new()?, Self::from_context(context)?.
PipelineNew ==
    /\ call = NoCall
    /\ \E cresp \in {"ok", "error"}, presp \in {"ok", "error"} :
        IF Check(cresp) # "Ok"
        THEN /\ presp = "ok"
             /\ UNCHANGED <<native, pipes>>
             /\ last' = [op |-> "new", res |-> "Err", ctx |-> NULL, value |-> NoValue,
                         destroyed |-> <<>>]
        ELSE LET c == NewHandle(native)
                 N1 == NCreate(native, "context")
                 r == FromContextResult(N1, c, presp) IN
             /\ Len(native.kinds) + (IF presp = "ok" THEN 2 ELSE 1) <= MaxHandles
             /\ native' = r.native
             /\ pipes' = IF r.res = "Ok" THEN pipes \cup {r.value} ELSE pipes
             /\ last' = [op |-> "new", res |-> r.res, ctx |-> c, value |-> r.value,
                         destroyed |-> DestroyedSince(Mark(native), r.native)]
    /\ UNCHANGED <<contexts, configs, raws, call, workers>>

\* drop(pipeline), in either state.
PipelineDrop ==
    /\ call = NoCall
    /\ \E pv \in pipes :
        /\ native' = DropPipeline(native, pv)
        /\ pipes' = pipes \ {pv}
        /\ last' = [op |-> "drop(Pipeline)", res |-> "Ok", h |-> pv.ptr, value |-> pv,
                    destroyed |-> DestroyedSince(Mark(native), native')]
    /\ UNCHANGED <<contexts, configs, raws, call, workers>>

\* What start / start_async return to the caller, as the record `last`.
StartReport(op, k, r, pv, cfg, resp) ==
    [op |-> op, res |-> r.res, h |-> pv.ptr, ctx |-> pv.context, cfg |-> cfg,
     resp |-> resp, ncall |-> r.ncall, profile |-> r.profile, value |-> r.value,
     destroyed |-> DestroyedSince(k, r.native)]

\* Variant of StartResult that forgets the config on failure instead of
\* dropping it.
StartResultLeakingConfig(N, pv, cfg, resp) ==
    LET N1 == NStart(N, pv.ptr, cfg, resp = "ok")
        ptr == IF resp = "ok" THEN NewHandle(N) ELSE NULL
    IN  IF Check(resp) # "Ok"
        THEN [native |-> DropPipeline(N1, pv), res |-> "Err",
              ncall |-> N1.lastcall, profile |-> NULL, value |-> NoValue]
        ELSE [native |-> N1, res |-> "Ok", ncall |-> N1.lastcall, profile |-> ptr,
              value |-> ActiveValue(pv.ptr, pv.context, ptr, cfg)]

\* InactivePipeline::start: the native start (with the config iff Some),
\* check()?; on failure self and config are dropped (config, the later
\* parameter, first); on success the profile is wrapped and the raw parts
\* of self move into the Active value together with config.
StartResult(N, pv, cfg, resp) ==
    LET N1 == NStart(N, pv.ptr, cfg, resp = "ok")
        ptr == IF resp = "ok" THEN NewHandle(N) ELSE NULL
    IN  IF Check(resp) # "Ok"
        THEN [native |-> DropPipeline(DropConfigOpt(N1, cfg), pv), res |-> "Err",
              ncall |-> N1.lastcall, profile |-> NULL, value |-> NoValue]
        ELSE LET parts == InactiveIntoRawParts(N1, pv) IN
             [native |-> parts.native, res |-> "Ok", ncall |-> N1.lastcall,
              profile |-> ptr,
              value |-> ActiveValue(parts.ptr, parts.context, ptr, cfg)]

Start ==
    /\ call = NoCall
    /\ \E pv \in pipes, cfg \in {NULL} \cup configs, resp \in {"ok", "error"} :
        LET r == StartResult(native, pv, cfg, resp) IN
        /\ pv.state = "Inactive"
        /\ resp = "ok" => HasRoom(native)
        /\ native' = r.native
        /\ configs' = configs \ {cfg}
        /\ pipes' = (pipes \ {pv}) \cup (IF r.res = "Ok" THEN {r.value} ELSE {})
        /\ last' = StartReport("start", Mark(native), r, pv, cfg, resp)
    /\ UNCHANGED <<contexts, raws, call, workers>>

\* Variant of StopResult that does not check the error slot.
StopResultIgnoringError(N, pv, resp) ==
    LET N1 == NStop(N, pv.ptr, resp = "ok")
    IN  [native |-> DropActive(N1, pv.profile, pv.config),
         res |-> "Ok", value |-> InactiveValue(pv.ptr, pv.context)]

\* Variant of StopResult that takes the raw parts before the check, so
\* that a failed stop destroys nothing.
StopResultLeakingOnError(N, pv, resp) ==
    LET N1 == NStop(N, pv.ptr, resp = "ok")
        parts == ActiveIntoRawParts(N1, pv)
    IN  IF Check(resp) # "Ok"
        THEN [native |-> parts.native, res |-> "Err", value |-> NoValue]
        ELSE [native |-> DropActive(parts.native, parts.profile, parts.config),
              res |-> "Ok", value |-> InactiveValue(parts.ptr, parts.context)]

\* ActivePipeline::stop: rs2_pipeline_stop, check()?; on failure self is
\* dropped; on success the raw parts are taken, the Active state rebuilt
\* from them is dropped (profile, config) and the Inactive value returned.
StopResult(N, pv, resp) ==
    LET N1 == NStop(N, pv.ptr, resp = "ok")
    IN  IF Check(resp) # "Ok"
        THEN [native |-> DropPipeline(N1, pv), res |-> "Err", value |-> NoValue]
        ELSE LET parts == ActiveIntoRawParts(N1, pv) IN
             [native |-> DropActive(parts.native, parts.profile, parts.config),
              res |-> "Ok", value |-> InactiveValue(parts.ptr, parts.context)]

Stop ==
    /\ call = NoCall
    /\ \E pv \in pipes, resp \in {"ok", "error"} :
        LET r == StopResult(native, pv, resp) IN
        /\ pv.state = "Active"
        /\ native' = r.native
        /\ pipes' = (pipes \ {pv}) \cup (IF r.res = "Ok" THEN {r.value} ELSE {})
        /\ last' = [op |-> "stop", res |-> r.res, h |-> pv.ptr, from |-> pv,
                    resp |-> resp, value |-> r.value,
                    destroyed |-> DestroyedSince(Mark(native), r.native)]
    /\ UNCHANGED <<contexts, configs, raws, call, workers>>

\* ActivePipeline::profile: &self.state.profile, no native call.
Profile ==
    /\ call = NoCall
    /\ \E pv \in pipes :
        /\ pv.state = "Active"
        /\ last' = [op |-> "profile", res |-> "Ok", h |-> pv.ptr, profile |-> pv.profile]
    /\ UNCHANGED <<native, contexts, configs, raws, pipes, call, workers>>

\* ------------------------------------------------------- wait, try_wait

\* base::DEFAULT_TIMEOUT: Duration::from_millis(RS2_DEFAULT_TIMEOUT)
DEFAULT_TIMEOUT == Millis(0, RS2_DEFAULT_TIMEOUT)

\* `d.as_millis() as c_uint`: the low 32 bits of the milliseconds.
AsCUint(d) == d.lo

\* Variant of WaitTimeoutMs with unwrap_or_default() in the place of
\* unwrap_or(DEFAULT_TIMEOUT).
WaitTimeoutMsNoDefault(timeout) == AsCUint(timeout)

\* wait: timeout.unwrap_or(DEFAULT_TIMEOUT).as_millis() as c_uint
WaitTimeoutMs(timeout) ==
    AsCUint(IF timeout = None THEN DEFAULT_TIMEOUT ELSE timeout)

\* Variant of WaitIter that surfaces every error, a timeout included,
\* whatever the timeout argument.
WaitIterNoRetry(timeout, resp, ptr) ==
    IF Check(resp) # "Ok"
    THEN [next |-> "return", res |-> Check(resp), frame |-> NULL]
    ELSE [next |-> "return", res |-> "Ok", frame |-> ptr]

\* Variant of WaitIter that retries on every timeout, whatever the
\* timeout argument.
WaitIterAlwaysRetry(timeout, resp, ptr) ==
    IF Check(resp) = "Timeout"
    THEN [next |-> "continue", res |-> "", frame |-> NULL]
    ELSE IF Check(resp) # "Ok"
         THEN [next |-> "return", res |-> Check(resp), frame |-> NULL]
         ELSE [next |-> "return", res |-> "Ok", frame |-> ptr]

\* Variant of WaitIter that, without a timeout argument, retries on every
\* error.
WaitIterRetryAnyError(timeout, resp, ptr) ==
    IF timeout = None /\ Check(resp) # "Ok"
    THEN [next |-> "continue", res |-> "", frame |-> NULL]
    ELSE IF Check(resp) # "Ok"
         THEN [next |-> "return", res |-> Check(resp), frame |-> NULL]
         ELSE [next |-> "return", res |-> "Ok", frame |-> ptr]

\* One iteration of the loop of wait on the native response (resp, ptr):
\* (None, Err(Timeout)) => continue; otherwise result?, then
\* Frame::from_raw(ptr) and break.
WaitIter(timeout, resp, ptr) ==
    IF timeout = None /\ Check(resp) = "Timeout"
    THEN [next |-> "continue", res |-> "", frame |-> NULL]
    ELSE IF Check(resp) # "Ok"
         THEN [next |-> "return", res |-> Check(resp), frame |-> NULL]
         ELSE [next |-> "return", res |-> "Ok", frame |-> ptr]

\* The loop of wait run on a script of native responses, n calls made so
\* far: the calls issued, and what is returned when the loop is left.
RECURSIVE WaitLoop(_, _, _)
WaitLoop(timeout, script, n) ==
    IF script = <<>>
    THEN [calls |-> n, res |-> "blocked", frame |-> NULL]
    ELSE LET it == WaitIter(timeout, Head(script)[1], Head(script)[2]) IN
         IF it.next = "continue"
         THEN WaitLoop(timeout, Tail(script), n + 1)
         ELSE [calls |-> n + 1, res |-> it.res, frame |-> it.frame]

\* The responses the double can give to a wait call: a frame on success,
\* any pointer with an error; at most MaxTimeouts timeouts per call.
WaitResponses(timeouts) ==
    {<<"ok", f>> : f \in Frames}
        \cup {<<"error", f>> : f \in {NULL} \cup Frames}
        \cup (IF timeouts < MaxTimeouts
              THEN {<<"timeout", f>> : f \in {NULL} \cup Frames} ELSE {})

\* ActivePipeline::wait is entered: timeout_ms is computed.
Wait ==
    /\ call = NoCall
    /\ \E pv \in pipes, t \in Timeouts :
        /\ pv.state = "Active"
        /\ call' = [op |-> "wait", pipe |-> pv.ptr, timeout |-> t,
                    ms |-> WaitTimeoutMs(t), calls |-> 0, timeouts |-> 0]
        /\ last' = NoOp
    /\ UNCHANGED <<native, contexts, configs, raws, pipes, workers>>

\* One iteration of the loop of wait: the native call and the match.
WaitStep ==
    /\ call.op = "wait"
    /\ \E rp \in WaitResponses(call.timeouts) :
        LET it == WaitIter(call.timeout, rp[1], rp[2])
            n == call.calls + 1
            k == call.timeouts + (IF rp[1] = "timeout" THEN 1 ELSE 0) IN
        /\ native' = NWait(native, call.pipe, "rs2_pipeline_wait_for_frames", call.ms)
        /\ IF it.next = "continue"
           THEN /\ call' = [call EXCEPT !.calls = n, !.timeouts = k]
                /\ last' = NoOp
           ELSE /\ call' = NoCall
                /\ last' = [op |-> "wait", res |-> it.res, h |-> call.pipe,
                            timeout |-> call.timeout, ms |-> call.ms, calls |-> n,
                            timeouts |-> k, resp |-> rp[1], ptr |-> rp[2],
                            frame |-> it.frame]
    /\ UNCHANGED <<contexts, configs, raws, pipes, workers>>

\* Variant of TryWaitResult that tests the flag for 1 instead of non-zero.
TryWaitResultFlagOne(ret, ptr, resp) ==
    IF Check(resp) # "Ok"
    THEN [res |-> "Err", frame |-> NULL]
    ELSE IF ret = 1
         THEN [res |-> "Some", frame |-> ptr]
         ELSE [res |-> "None", frame |-> NULL]

\* ActivePipeline::try_wait after the native poll returned (ret, ptr, resp):
\* the error is checked first, then ret != 0 decides Some / None.
TryWaitResult(ret, ptr, resp) ==
    IF Check(resp) # "Ok"
    THEN [res |-> "Err", frame |-> NULL]
    ELSE IF ret # 0
         THEN [res |-> "Some", frame |-> ptr]
         ELSE [res |-> "None", frame |-> NULL]

\* The responses the double can give to a poll: a frame pointer whenever it
\* reports a frame without error, any pointer otherwise.
PollResponses ==
    {<<ret, ptr, resp>> \in (0..2) \X ({NULL} \cup Frames) \X {"ok", "error"} :
        (ret # 0 /\ resp = "ok") => ptr # NULL}

TryWait ==
    /\ call = NoCall
    /\ \E pv \in pipes, in \in PollResponses :
        LET r == TryWaitResult(in[1], in[2], in[3]) IN
        /\ pv.state = "Active"
        /\ native' = NWait(native, pv.ptr, "rs2_pipeline_poll_for_frames", 0)
        /\ last' = [op |-> "try_wait", res |-> r.res, h |-> pv.ptr, calls |-> 1,
                    ret |-> in[1], ptr |-> in[2], resp |-> in[3], frame |-> r.frame]
    /\ UNCHANGED <<contexts, configs, raws, pipes, call, workers>>

\* --------------------------------------------------------- async bridge
\* A worker thread: what it captured (raw addresses), where it is
\* ("running", "returned": result computed, "sent": tx.send done), its
\* result, and whether the receiving half of its channel is still awaited.

Worker(op, pipe, cfg, timeout, ms) ==
    [op |-> op, pipe |-> pipe, cfg |-> cfg, timeout |-> timeout, ms |-> ms,
     calls |-> 0, timeouts |-> 0, st |-> "running", res |-> "", val |-> NULL,
     resp |-> "", ptr |-> NULL, awaited |-> TRUE]

RemoveAt(s, i) == SubSeq(s, 1, i - 1) \o SubSeq(s, i + 1, Len(s))

\* The worker whose channel the caller's future is receiving from.
Awaited == {i \in 1..Len(workers) : workers[i].awaited}

\* InactivePipeline::start_async up to the await: the addresses are
\* captured, the channel made and the thread spawned; the future keeps
\* self and config.
StartAsync ==
    /\ call = NoCall
    /\ \E pv \in pipes, cfg \in {NULL} \cup configs :
        /\ pv.state = "Inactive"
        /\ call' = [op |-> "start_async", self |-> pv, config |-> cfg,
                    entry |-> native]
        /\ workers' = Append(workers, Worker("start_async", pv.ptr, cfg, None, 0))
        /\ pipes' = pipes \ {pv}
        /\ configs' = configs \ {cfg}
        /\ last' = NoOp
    /\ UNCHANGED <<native, contexts, raws>>

\* Variant of StartAsyncWork that always issues the start without config.
StartAsyncWorkNoConfig(N, w, resp) ==
    LET N1 == NStart(N, w.pipe, NULL, resp = "ok")
    IN  [native |-> N1,
         worker |-> [w EXCEPT !.st = "returned", !.calls = @ + 1, !.resp = resp,
                              !.res = IF Check(resp) = "Ok" THEN "Ok" ELSE "Err",
                              !.val = IF Check(resp) = "Ok" THEN NewHandle(N) ELSE NULL]]

\* The closure `func` of the start_async thread: the native start (with
\* the config iff an address was captured), check()?, Ok(profile_ptr).
StartAsyncWork(N, w, resp) ==
    LET N1 == NStart(N, w.pipe, w.cfg, resp = "ok")
    IN  [native |-> N1,
         worker |-> [w EXCEPT !.st = "returned", !.calls = @ + 1, !.resp = resp,
                              !.res = IF Check(resp) = "Ok" THEN "Ok" ELSE "Err",
                              !.val = IF Check(resp) = "Ok" THEN NewHandle(N) ELSE NULL]]

WorkerStart ==
    \E i \in 1..Len(workers), resp \in {"ok", "error"} :
        LET r == StartAsyncWork(native, workers[i], resp) IN
        /\ workers[i].op = "start_async"
        /\ workers[i].st = "running"
        /\ resp = "ok" => HasRoom(native)
        /\ native' = r.native
        /\ workers' = [workers EXCEPT ![i] = r.worker]
        /\ UNCHANGED <<contexts, configs, raws, pipes, call, last>>

\* wait_async: timeout.map(|d| d.as_millis() as c_uint)
\*                 .unwrap_or(RS2_DEFAULT_TIMEOUT as c_uint)
WaitAsyncTimeoutMs(timeout) ==
    IF timeout # None THEN AsCUint(timeout) ELSE RS2_DEFAULT_TIMEOUT

\* ActivePipeline::wait_async up to the await.
WaitAsync ==
    /\ call = NoCall
    /\ \E pv \in pipes, t \in Timeouts :
        /\ pv.state = "Active"
        /\ call' = [op |-> "wait_async", pipe |-> pv.ptr, timeout |-> t]
        /\ workers' = Append(workers,
                             Worker("wait_async", pv.ptr, NULL, t, WaitAsyncTimeoutMs(t)))
        /\ last' = NoOp
    /\ UNCHANGED <<native, contexts, configs, raws, pipes>>

\* Variant of WaitAsyncIter that never retries.
WaitAsyncIterNoRetry(timeout, resp, ptr) ==
    [next |-> "return", res |-> Check(resp),
     frame |-> IF Check(resp) = "Ok" THEN ptr ELSE NULL]

\* One iteration of the loop of the wait_async thread:
\* (None, Err(Timeout)) => continue,
\* (_, result) => break result.map(|_| Frame::from_raw(ptr)).
WaitAsyncIter(timeout, resp, ptr) ==
    IF timeout = None /\ Check(resp) = "Timeout"
    THEN [next |-> "continue", res |-> "", frame |-> NULL]
    ELSE [next |-> "return", res |-> Check(resp),
          frame |-> IF Check(resp) = "Ok" THEN ptr ELSE NULL]

WorkerWaitStep ==
    \E i \in 1..Len(workers) :
        LET w == workers[i] IN
        /\ w.op = "wait_async"
        /\ w.st = "running"
        /\ \E rp \in WaitResponses(w.timeouts) :
            LET it == WaitAsyncIter(w.timeout, rp[1], rp[2])
                w1 == [w EXCEPT !.calls = @ + 1,
                                !.timeouts = @ + (IF rp[1] = "timeout" THEN 1 ELSE 0)] IN
            /\ native' = NWait(native, w.pipe, "rs2_pipeline_wait_for_frames", w.ms)
            /\ workers' = [workers EXCEPT ![i] =
                    IF it.next = "continue" THEN w1
                    ELSE [w1 EXCEPT !.st = "returned", !.res = it.res, !.val = it.frame,
                                    !.resp = rp[1], !.ptr = rp[2]]]
        /\ UNCHANGED <<contexts, configs, raws, pipes, call, last>>

\* Variant of WorkerSend that sends Ok without looking at the error slot.
WorkerSendUnchecked ==
    \E i \in 1..Len(workers) :
        /\ workers[i].st = "returned"
        /\ workers[i].awaited
        /\ workers' = [workers EXCEPT ![i].st = "sent", ![i].res = "Ok"]
        /\ UNCHANGED <<native, contexts, configs, raws, pipes, call, last>>

\* let _ = tx.send(result): the result is put in the channel.
WorkerSend ==
    \E i \in 1..Len(workers) :
        /\ workers[i].st = "returned"
        /\ workers[i].awaited
        /\ workers' = [workers EXCEPT ![i].st = "sent"]
        /\ UNCHANGED <<native, contexts, configs, raws, pipes, call, last>>

\* start_async after the await: rx.await.unwrap()?, then as start.
StartAsyncFinish(N, pv, cfg, w) ==
    IF w.res # "Ok"
    THEN [native |-> DropPipeline(DropConfigOpt(N, cfg), pv), res |-> "Err",
          ncall |-> N.lastcall, profile |-> NULL, value |-> NoValue]
    ELSE LET parts == InactiveIntoRawParts(N, pv) IN
         [native |-> parts.native, res |-> "Ok", ncall |-> N.lastcall,
          profile |-> w.val,
          value |-> ActiveValue(parts.ptr, parts.context, w.val, cfg)]

StartAsyncResume ==
    /\ call.op = "start_async"
    /\ \E i \in Awaited :
        LET w == workers[i]
            r == StartAsyncFinish(native, call.self, call.config, w) IN
        /\ w.st = "sent"
        /\ native' = r.native
        /\ pipes' = IF r.res = "Ok" THEN pipes \cup {r.value} ELSE pipes
        /\ workers' = RemoveAt(workers, i)
        /\ call' = NoCall
        /\ last' = StartReport("start_async", Mark(call.entry), r, call.self, call.config, w.resp)
    /\ UNCHANGED <<contexts, configs, raws>>

\* wait_async after the await: rx.await.unwrap()?, Ok(frame).
WaitAsyncResume ==
    /\ call.op = "wait_async"
    /\ \E i \in Awaited :
        LET w == workers[i] IN
        /\ w.st = "sent"
        /\ workers' = RemoveAt(workers, i)
        /\ call' = NoCall
        /\ last' = [op |-> "wait_async", res |-> w.res, h |-> call.pipe,
                    timeout |-> call.timeout, ms |-> w.ms, calls |-> w.calls,
                    timeouts |-> w.timeouts, resp |-> w.resp, ptr |-> w.ptr,
                    frame |-> w.val]
    /\ UNCHANGED <<native, contexts, configs, raws, pipes>>

\* ------------------------------------------------- abandoned futures

\* The live worker threads a caller may leave behind.
MaxWorkers == 1

AsyncOps == {"start_async", "wait_async"}

\* Variant of Detach in which dropping the future cancels the thread.
DetachCancelling(ws) == SelectSeq(ws, LAMBDA w : ~w.awaited)

\* What dropping the future, and with it the receiver rx, does to the
\* threads: nothing. The JoinHandle of thread::spawn was dropped at once,
\* so the thread is detached and keeps running; only a result already in
\* the channel goes with the channel.
Detach(ws) ==
    LET kept == SelectSeq(ws, LAMBDA w : ~(w.awaited /\ w.st = "sent"))
    IN  [i \in 1..Len(kept) |-> [kept[i] EXCEPT !.awaited = FALSE]]

\* The calls made so far by the thread of the pending call.
AwaitedCalls == IF Awaited = {} THEN 0 ELSE workers[CHOOSE i \in Awaited : TRUE].calls

\* The future of start_async is dropped at its await: it owns self and
\* config, which are dropped with it.
AbandonStartAsync ==
    /\ call.op = "start_async"
    /\ native' = DropPipeline(DropConfigOpt(native, call.config), call.self)
    /\ workers' = Detach(workers)
    /\ call' = NoCall
    /\ last' = [op |-> "abandon", of |-> "start_async", h |-> call.self.ptr,
                calls |-> AwaitedCalls]
    /\ UNCHANGED <<contexts, configs, raws, pipes>>

\* The future of wait_async is dropped at its await: it only borrows the
\* pipeline.
AbandonWaitAsync ==
    /\ call.op = "wait_async"
    /\ workers' = Detach(workers)
    /\ call' = NoCall
    /\ last' = [op |-> "abandon", of |-> "wait_async", h |-> call.pipe,
                calls |-> AwaitedCalls]
    /\ UNCHANGED <<native, contexts, configs, raws, pipes>>

\* let _ = tx.send(result) with the receiver gone: send gives the result
\* back as Err(result), `let _` drops it, and the thread ends.
WorkerDiscard ==
    \E i \in 1..Len(workers) :
        /\ workers[i].st = "returned"
        /\ ~workers[i].awaited
        /\ workers' = RemoveAt(workers, i)
        /\ UNCHANGED <<native, contexts, configs, raws, pipes, call, last>>

\* start_async and wait_async while fewer than MaxWorkers threads live.
StartAsyncBounded == Len(workers) < MaxWorkers /\ StartAsync
WaitAsyncBounded == Len(workers) < MaxWorkers /\ WaitAsync

\* -------------------------------------------------------- long timeouts

\* The largest multiple of 2^32 ms in the durations passed to wait.
MaxHigh == 1

\* Durations up to MaxHigh * 2^32 + 1000 ms.
LongDurations == {Millis(hi, lo) : hi \in 0..MaxHigh, lo \in {0, 1000}}

\* ActivePipeline::wait is entered with Some(d), d any of LongDurations.
WaitLong ==
    /\ call = NoCall
    /\ \E pv \in pipes, t \in LongDurations :
        /\ pv.state = "Active"
        /\ call' = [op |-> "wait", pipe |-> pv.ptr, timeout |-> t,
                    ms |-> WaitTimeoutMs(t), calls |-> 0, timeouts |-> 0]
        /\ last' = NoOp
    /\ UNCHANGED <<native, contexts, configs, raws, pipes, workers>>

\* ActivePipeline::wait_async up to the await, likewise.
WaitAsyncLong ==
    /\ call = NoCall
    /\ \E pv \in pipes, t \in LongDurations :
        /\ pv.state = "Active"
        /\ call' = [op |-> "wait_async", pipe |-> pv.ptr, timeout |-> t]
        /\ workers' = Append(workers,
                             Worker("wait_async", pv.ptr, NULL, t, WaitAsyncTimeoutMs(t)))
        /\ last' = NoOp
    /\ UNCHANGED <<native, contexts, configs, raws, pipes>>

\* -------------------------------------------------------- build script
\* realsense-sys/build.rs. While the script runs, `call` holds where it is:
\* the include paths not yet tried, and for the rs.h being scanned the
\* lines read so far and the four Option<String> ("" is None). `last`
\* holds how the run ended.

\* The distinct include paths pkg-config may report.
MaxDirs == 2

\* The lines of an rs.h that are looked at.
MaxLines == 5

MacroNames == {"MAJOR_VERSION", "MINOR_VERSION", "PATCH_VERSION", "BUILD_VERSION"}

\* A line "#define RS2_API_<name> <version>"; version "" when the line
\* ends after the name.
Define(name, version) == [prefix |-> TRUE, name |-> name, version |-> version]

\* A line that does not start with "#define RS2_API_".
OtherLine == [prefix |-> FALSE, name |-> "", version |-> ""]

HeaderLines ==
    {Define("MAJOR_VERSION", v) : v \in {"2", "3", ""}}
        \cup {Define(n, "0") : n \in MacroNames \ {"MAJOR_VERSION"}}
        \cup {OtherLine}

NoVersion == [major |-> "", minor |-> "", patch |-> "", build |-> ""]

\* The body of the loop of get_version_from_header_dir after read_line:
\* a line with the prefix, a name and a version sets the Option of a
\* known name, replacing what it held.
ScanLine(v, line) ==
    IF line.prefix /\ line.name # "" /\ line.version # ""
    THEN CASE line.name = "MAJOR_VERSION" -> [v EXCEPT !.major = line.version]
           [] line.name = "MINOR_VERSION" -> [v EXCEPT !.minor = line.version]
           [] line.name = "PATCH_VERSION" -> [v EXCEPT !.patch = line.version]
           [] line.name = "BUILD_VERSION" -> [v EXCEPT !.build = line.version]
           [] OTHER -> v
    ELSE v

\* if let (Some(major), Some(minor), Some(patch), Some(build)) = ...
Complete(v) == v.major # "" /\ v.minor # "" /\ v.patch # "" /\ v.build # ""

\* Variant of VersionSupported that takes every major version from 2 on.
VersionSupportedFrom2(v) == v.major \in {"2", "3"}

\* assert_eq!(&version.major, "2", ...)
VersionSupported(v) == v.major = "2"

BuildReport(outcome, docOnly, probe, c, found, v, read) ==
    [op |-> "build.rs", outcome |-> outcome, docOnly |-> docOnly, probe |-> probe,
     examined |-> c.paths - c.left, found |-> found, version |-> v, read |-> read]

NoBuild == [paths |-> 0, left |-> 0]

\* main up to the iteration over the include paths: the doc-only return,
\* probe_library(..)?, the HashSet of the include paths.
BuildMain ==
    /\ call = NoCall
    /\ \E docOnly \in BOOLEAN, probe \in {"ok", "error"}, n \in 0..MaxDirs :
        IF docOnly
        THEN /\ probe = "ok" /\ n = 0
             /\ call' = NoCall
             /\ last' = BuildReport("skipped", TRUE, "", NoBuild, FALSE, NoVersion, <<>>)
        ELSE IF probe # "ok"
        THEN /\ n = 0
             /\ call' = NoCall
             /\ last' = BuildReport("failed", FALSE, probe, NoBuild, FALSE, NoVersion, <<>>)
        ELSE /\ call' = [op |-> "build.rs", pc |-> "dirs", paths |-> n, left |-> n,
                         read |-> <<>>, version |-> NoVersion]
             /\ last' = NoOp
    /\ UNCHANGED <<native, contexts, configs, raws, pipes, workers>>

\* filter_map(..).next(): the next path of the set, in whatever order the
\* set gives them; without one left, expect(..) panics. A path is passed
\* over when <path>/librealsense2 is no directory or its rs.h cannot be
\* opened.
BuildNextDir ==
    /\ call.op = "build.rs"
    /\ call.pc = "dirs"
    /\ IF call.left = 0
       THEN /\ call' = NoCall
            /\ last' = BuildReport("failed", FALSE, "ok", call, FALSE, NoVersion, <<>>)
       ELSE \E dir \in {"no directory", "no rs.h", "rs.h"} :
            /\ call' = [call EXCEPT !.left = @ - 1,
                                    !.pc = IF dir = "rs.h" THEN "scan" ELSE "dirs"]
            /\ last' = last
    /\ UNCHANGED <<native, contexts, configs, raws, pipes, workers>>

\* One iteration of the loop of get_version_from_header_dir: read_line
\* (Ok(0) | Err(_) => return None), the line, the test of the four
\* Options; with Some(version), main goes on to the assertion and, past
\* it, to bindgen, cc and the link line.
BuildReadLine ==
    /\ call.op = "build.rs"
    /\ call.pc = "scan"
    /\ \/ /\ call' = [call EXCEPT !.pc = "dirs", !.read = <<>>, !.version = NoVersion]
          /\ last' = last
       \/ /\ Len(call.read) < MaxLines
          /\ \E line \in HeaderLines :
                LET v == ScanLine(call.version, line)
                    read == Append(call.read, line) IN
                IF Complete(v)
                THEN /\ call' = NoCall
                     /\ last' = BuildReport(IF VersionSupported(v) THEN "proceeds"
                                            ELSE "failed",
                                            FALSE, "ok", call, TRUE, v, read)
                ELSE /\ call' = [call EXCEPT !.version = v, !.read = read]
                     /\ last' = last
    /\ UNCHANGED <<native, contexts, configs, raws, pipes, workers>>

\* ------------------------------------------------------- specifications

Init ==
    /\ native = [kinds |-> <<>>, deleted |-> <<>>, started |-> {}, misuse |-> {},
                 lastcall |-> <<>>]
    /\ contexts = {}
    /\ configs = {}
    /\ raws = {}
    /\ pipes = {}
    /\ call = NoCall
    /\ workers = <<>>
    /\ last = NoOp

\* The operations of the caller and the steps of the worker threads.
Next ==
    \/ ContextNew
    \/ ContextDrop
    \/ ConfigNew
    \/ ConfigDrop
    \/ ConfigEnable
    \/ ConfigIntoRaw
    \/ ConfigFromRaw
    \/ FromContext
    \/ PipelineNew
    \/ PipelineDrop
    \/ Start
    \/ Stop
    \/ Profile
    \/ Wait
    \/ WaitStep
    \/ TryWait
    \/ StartAsync
    \/ WorkerStart
    \/ WaitAsync
    \/ WorkerWaitStep
    \/ WorkerSend
    \/ StartAsyncResume
    \/ WaitAsyncResume


Spec == Init /\ [][Next]_vars

\* One Inactive pipeline and one Config, as left by InactivePipeline::new
\* and Config::new.
InitAbandon ==
    /\ native = [kinds |-> <<"context", "pipeline", "config">>, deleted |-> <<>>,
                 started |-> {}, misuse |-> {}, lastcall |-> <<>>]
    /\ contexts = {}
    /\ configs = {3}
    /\ raws = {}
    /\ pipes = {InactiveValue(2, 1)}
    /\ call = NoCall
    /\ workers = <<>>
    /\ last = NoOp

\* The operations on that pipeline when the caller may also drop the
\* future of start_async or wait_async at its await.
NextAbandon ==
    \/ PipelineDrop
    \/ Stop
    \/ Wait
    \/ WaitStep
    \/ StartAsyncBounded
    \/ WorkerStart
    \/ WaitAsyncBounded
    \/ WorkerWaitStep
    \/ WorkerSend
    \/ WorkerDiscard
    \/ StartAsyncResume
    \/ WaitAsyncResume
    \/ AbandonStartAsync
    \/ AbandonWaitAsync

SpecAbandon == InitAbandon /\ [][NextAbandon]_vars

\* Runs of the build script.
NextBuild ==
    \/ BuildMain
    \/ BuildNextDir
    \/ BuildReadLine

SpecBuild == Init /\ [][NextBuild]_vars

\* A pipeline is made and started, then waited on with long durations.
NextLong ==
    \/ PipelineNew
    \/ Start
    \/ WaitLong
    \/ WaitStep
    \/ WaitAsyncLong
    \/ WorkerWaitStep
    \/ WorkerSend
    \/ WaitAsyncResume

SpecLong == Init /\ [][NextLong]_vars

\* A pipeline is made, started, waited on and stopped by one thread,
\* which, once inside wait, keeps running its loop.
NextWait ==
    \/ PipelineNew
    \/ Start
    \/ Wait
    \/ WaitStep
    \/ Stop
    \/ PipelineDrop

SpecWaitFair == Init /\ [][NextWait]_vars /\ WF_vars(WaitStep)

\* ------------------------------------------------------------- claims

AllHandles == Handles(native)
HandlesOf(kind) == {h \in AllHandles : native.kinds[h] = kind}
D(h) == Destroys(native, h)
AsSet(seq) == Range(seq)

\* The places that own handle h: a caller-held value or raw address, a
\* field of a pipeline value, a value kept by a start_async future, or a
\* profile pointer on its way from the worker thread to the caller.
ValueOwns(pv, h) ==
    (IF pv.ptr = h THEN 1 ELSE 0) + (IF pv.context = h THEN 1 ELSE 0)
        + (IF pv.state = "Active" /\ pv.profile = h THEN 1 ELSE 0)
        + (IF pv.state = "Active" /\ pv.config = h THEN 1 ELSE 0)

RECURSIVE SumOver(_, _)
SumOver(S, h) ==
    IF S = {} THEN 0
    ELSE LET pv == CHOOSE x \in S : TRUE IN ValueOwns(pv, h) + SumOver(S \ {pv}, h)

Owners(h) ==
    (IF h \in contexts THEN 1 ELSE 0) + (IF h \in configs THEN 1 ELSE 0)
        + (IF h \in raws THEN 1 ELSE 0)
        + SumOver(pipes, h)
        + (IF call.op = "start_async"
           THEN ValueOwns(call.self, h) + (IF call.config = h THEN 1 ELSE 0) ELSE 0)
        + Cardinality({i \in 1..Len(workers) :
                          /\ workers[i].op = "start_async"
                          /\ workers[i].res = "Ok"
                          /\ workers[i].val = h})

\* C1: every native handle (pipeline, context, config, profile) has exactly
\* one owner until it is destroyed and is destroyed exactly once when its
\* owner is dropped: at every moment the destroy calls issued for it plus
\* its owners number exactly one (never two destroys, never an unowned
\* handle left undestroyed), whatever state a pipeline is dropped in.
C1_ExactlyOneDestroy ==
    \A h \in AllHandles : D(h) + Owners(h) = 1

\* C1 witness: an Active pipeline started with a config has been dropped
\* and its four handles have one destroy call each.
C1_Witness ==
    /\ last.op = "drop(Pipeline)"
    /\ last.value.state = "Active"
    /\ last.value.config # NULL
    /\ \A h \in {last.value.ptr, last.value.context, last.value.profile,
                 last.value.config} : D(h) = 1

MisuseOfState ==
    {m \in native.misuse : m[2] \in {"started", "not started"}}

\* C2: the native start is never issued on a started pipeline and the
\* native stop, wait-for-frames and poll-for-frames are never issued on a
\* pipeline that is not started; a pipeline value held by the caller is
\* Active exactly when its native pipeline is started.
C2_TwoStateLifecycle ==
    /\ MisuseOfState = {}
    /\ \A pv \in pipes : (pv.state = "Active") <=> (pv.ptr \in native.started)

\* C2 witness: a pipeline has been started again after a stop (a second
\* profile handle exists for the one pipeline handle).
C2_Witness ==
    /\ last.op = "start"
    /\ last.res = "Ok"
    /\ Cardinality(HandlesOf("pipeline")) = 1
    /\ Cardinality(HandlesOf("profile")) = 2

\* C3: wait(None) never returns Error::Timeout, and when the native wait
\* reports a timeout N times and then succeeds it has issued exactly N + 1
\* native calls and returns Ok with the frame of the last call.
C3_WaitNoneRetries ==
    (last.op = "wait" /\ last.timeout = None) =>
        /\ last.res # "Timeout"
        /\ last.resp # "timeout"
        /\ last.resp = "ok" =>
            /\ last.calls = last.timeouts + 1
            /\ last.res = "Ok"
            /\ last.frame = last.ptr

\* C3 witness: wait(None) returned Ok after MaxTimeouts timeouts.
C3_Witness ==
    /\ last.op = "wait"
    /\ last.timeout = None
    /\ last.timeouts = MaxTimeouts
    /\ last.res = "Ok"
    /\ last.frame \in Frames

\* C4: wait(Some(d)) never issues a second native call, and when the native
\* wait reports a timeout it returns Error::Timeout after that one call and
\* wraps no frame.
C4_WaitSomeSurfacesTimeout ==
    /\ (call.op = "wait" /\ call.timeout # None) => call.calls = 0
    /\ (last.op = "wait" /\ last.timeout # None) => last.calls = 1
    /\ (last.op = "wait" /\ last.timeout # None /\ last.resp = "timeout") =>
        /\ last.res = "Timeout"
        /\ last.frame = NULL

\* C4 witness: wait(Some(d)) returned Error::Timeout although the failed
\* call left a non-null pointer.
C4_Witness ==
    /\ last.op = "wait"
    /\ last.timeout # None
    /\ last.resp = "timeout"
    /\ last.res = "Timeout"
    /\ last.ptr # NULL

\* C5: try_wait issues one native poll; without an error it returns
\* Ok(None) when the flag is zero and Ok(Some(frame)) of the out-parameter
\* when it is non-zero; with an error it returns the error whatever the
\* flag and wraps no frame.
C5_TryWaitByFlag ==
    last.op = "try_wait" =>
        /\ last.calls = 1
        /\ native.lastcall = <<"rs2_pipeline_poll_for_frames", last.h, 0>>
        /\ (last.resp = "ok" /\ last.ret = 0) => (last.res = "None" /\ last.frame = NULL)
        /\ (last.resp = "ok" /\ last.ret # 0) => (last.res = "Some" /\ last.frame = last.ptr)
        /\ last.resp # "ok" => (last.res = "Err" /\ last.frame = NULL)

\* C5 witness: a flag of 2 gave Ok(Some(frame)).
C5_Witness ==
    /\ last.op = "try_wait"
    /\ last.ret = 2
    /\ last.res = "Some"
    /\ last.frame \in Frames

\* C6: when an awaited start_async completes, the native state (the calls
\* issued, the handles started and destroyed), the pipeline value produced
\* and the result are those start gives on the same pipeline, config and
\* native response from the state start_async was entered in.
C6_StartAsyncAsStart ==
    [][(call.op = "start_async" /\ call'.op = "none") =>
        \E i \in Awaited :
            LET r == StartResult(call.entry, call.self, call.config, workers[i].resp) IN
            /\ native' = r.native
            /\ pipes' = pipes \cup (IF r.res = "Ok" THEN {r.value} ELSE {})
            /\ last' = StartReport("start_async", Mark(call.entry), r, call.self,
                                   call.config, workers[i].resp)]_vars

\* C6 witness: start_async with a config has completed with Ok.
C6_Witness ==
    /\ last.op = "start_async"
    /\ last.res = "Ok"
    /\ last.cfg # NULL
    /\ last.value.config = last.cfg

\* The script a completed wait consumed: its timeouts, then its last response.
ScriptOf(l) ==
    [i \in 1..(l.calls - 1) |-> <<"timeout", NULL>>] \o <<<<l.resp, l.ptr>>>>

\* C7: a completed wait_async issued the native calls and returns the
\* result (frame, Error::Timeout or other error) that the loop of wait
\* gives for the same timeout argument on the same native responses.
C7_WaitAsyncAsWait ==
    last.op \in {"wait", "wait_async"} =>
        /\ last.calls = last.timeouts + (IF last.resp = "timeout" THEN 0 ELSE 1)
        /\ [calls |-> last.calls, res |-> last.res, frame |-> last.frame]
               = WaitLoop(last.timeout, ScriptOf(last), 0)

\* C7 witness: wait_async(None) returned Ok after MaxTimeouts timeouts.
C7_Witness ==
    /\ last.op = "wait_async"
    /\ last.timeout = None
    /\ last.timeouts = MaxTimeouts
    /\ last.res = "Ok"

\* C8: into_raw issues no destroy call and leaves no Config value for the
\* handle; a handle taken out by into_raw has no destroy call while it is
\* not re-wrapped; from_raw yields a Config of that handle, and dropping
\* it issues exactly one destroy call.
C8_ConfigRoundTrip ==
    /\ \A r \in raws : D(r) = 0 /\ r \notin configs
    /\ last.op = "Config::into_raw" => (last.h \in raws /\ D(last.h) = 0)
    /\ last.op = "Config::from_raw" => (last.h \in configs /\ D(last.h) = 0)
    /\ (last.op = "drop(Config)" /\ last.rewrapped) => D(last.h) = 1

\* C8 witness: a Config re-wrapped by from_raw has been dropped.
C8_Witness ==
    /\ last.op = "drop(Config)"
    /\ last.rewrapped
    /\ D(last.h) = 1

\* C9: when the native start fails, start returns an error, yields no
\* Active pipeline, wraps no profile, and the pipeline, the context and the
\* supplied config are each destroyed exactly once.
C9_StartFailureDropsAll ==
    (last.op = "start" /\ last.resp = "error") =>
        /\ last.res = "Err"
        /\ last.value = NoValue
        /\ last.profile = NULL
        /\ \A pv \in pipes : pv.ptr # last.h
        /\ last.cfg \notin configs
        /\ AsSet(last.destroyed) = {last.h, last.ctx} \cup ({last.cfg} \ {NULL})
        /\ \A h \in AsSet(last.destroyed) : D(h) = 1

\* C9 witness: start with a config has failed.
C9_Witness ==
    /\ last.op = "start"
    /\ last.resp = "error"
    /\ last.cfg # NULL
    /\ last.res = "Err"

\* C10: when the native stop succeeds, stop destroys the profile once and
\* the config once if there is one, destroys neither the pipeline nor the
\* context, and returns an Inactive pipeline of the same pipeline and
\* context handles.
C10_StopFrame ==
    (last.op = "stop" /\ last.resp = "ok") =>
        /\ last.res = "Ok"
        /\ AsSet(last.destroyed) = {last.from.profile} \cup ({last.from.config} \ {NULL})
        /\ Len(last.destroyed) = Cardinality(AsSet(last.destroyed))
        /\ \A h \in AsSet(last.destroyed) : D(h) = 1
        /\ D(last.from.ptr) = 0
        /\ D(last.from.context) = 0
        /\ last.value = InactiveValue(last.from.ptr, last.from.context)
        /\ last.value \in pipes

\* C10 witness: a pipeline started with a config has been stopped.
C10_Witness ==
    /\ last.op = "stop"
    /\ last.res = "Ok"
    /\ last.from.config # NULL
    /\ D(last.from.config) = 1


\* The step in which the caller drops the future of a pending async call.
AbandonStep == call.op \in AsyncOps /\ call'.op = "none" /\ last'.op = "abandon"

\* The step in which a thread ends with its result undelivered.
DiscardStep == Len(workers') < Len(workers) /\ call' = call

\* The threads whose future was dropped.
Abandoned == {i \in 1..Len(workers) : ~workers[i].awaited}

\* C11: when the caller drops the future of start_async or wait_async
\* after the thread was spawned, the thread is not interrupted: every
\* thread that has not sent yet is still there, in the state it was in,
\* and goes on to its native call. Its result is never put in a channel
\* and never reported to a caller: the thread ends with the result
\* dropped, with no native call, no destroy and no change to what the
\* caller holds or last observed; every result a caller does receive is
\* that of the thread of its own pending call.
C11_AbandonedWorkDiscarded ==
    /\ [](\A i \in Abandoned : workers[i].st \in {"running", "returned"})
    /\ [][/\ AbandonStep =>
               \A i \in 1..Len(workers) :
                   workers[i].st # "sent" =>
                       \E j \in 1..Len(workers') :
                           workers'[j] = [workers[i] EXCEPT !.awaited = FALSE]
          /\ DiscardStep =>
               /\ \E i \in Abandoned :
                      /\ workers[i].st = "returned"
                      /\ workers[i].calls >= 1
                      /\ workers' = RemoveAt(workers, i)
               /\ UNCHANGED <<native, contexts, configs, raws, pipes, last>>
          /\ (Len(workers') < Len(workers) /\ ~DiscardStep /\ ~AbandonStep) =>
               \E i \in Awaited :
                   /\ workers' = RemoveAt(workers, i)
                   /\ last'.op = workers[i].op
                   /\ last'.res = workers[i].res]_vars

\* An abandoned thread that made its native call after the future was
\* dropped and holds a result nobody will receive.
C11_Witness ==
    /\ call = NoCall
    /\ last.op = "abandon"
    /\ Len(workers) = 1
    /\ ~workers[1].awaited
    /\ workers[1].st = "returned"
    /\ workers[1].pipe = last.h
    /\ workers[1].calls > last.calls


\* C12: enable_stream, enable_device_from_serial and
\* enable_device_from_file take the Config by value. When the native call
\* succeeds the caller gets a Config on the same handle and no destroy
\* call was made; when it fails the caller gets an error, no Config on
\* that handle is left, and the handle was destroyed exactly once.
C12_EnableKeepsOrDestroys ==
    last.op \in EnableOps =>
        IF last.resp = "ok"
        THEN /\ last.res = "Ok"
             /\ last.h \in configs
             /\ last.destroyed = <<>>
             /\ D(last.h) = 0
        ELSE /\ last.res = "Err"
             /\ last.h \notin configs
             /\ last.destroyed = <<last.h>>
             /\ D(last.h) = 1

\* A builder operation whose native call failed.
C12_Witness ==
    /\ last.op = "enable_device_from_serial"
    /\ last.resp = "error"
    /\ native.kinds[last.h] = "config"
    /\ D(last.h) = 1


\* C16: in wait, with or without a timeout argument, a native error other
\* than a timeout is returned by the iteration that got it: the result is
\* that error, no frame is wrapped from the failed call's pointer, and the
\* failing call was the last one issued. The loop goes round only on a
\* timeout with no timeout argument: every call before the current one
\* was such a timeout.
C16_WaitSurfacesErrors ==
    /\ (last.op = "wait" /\ last.resp = "error") =>
          /\ last.res = "Err"
          /\ last.frame = NULL
          /\ last.calls = last.timeouts + 1
          /\ last.timeout # None => last.calls = 1
          /\ native.lastcall = <<"rs2_pipeline_wait_for_frames", last.h, last.ms>>
    /\ (call.op = "wait" /\ call.calls > 0) =>
          /\ call.timeout = None
          /\ call.calls = call.timeouts

\* wait(None) that met a native error after a timeout, the failed call
\* having left a pointer behind.
C16_Witness ==
    /\ last.op = "wait"
    /\ last.timeout = None
    /\ last.resp = "error"
    /\ last.ptr # NULL
    /\ last.timeouts = 1
    /\ last.calls = 2

\* C18: from_context takes the context by value. When the native
\* construction succeeds the caller gets an Inactive pipeline that owns
\* that context, and nothing was destroyed; when it fails the caller gets
\* an error and no pipeline, and the only destroy call made is the one of
\* the context, made once.
C18_FromContextOwnsContext ==
    last.op = "from_context" =>
        /\ last.ctx \notin contexts
        /\ IF last.resp = "ok"
           THEN /\ last.res = "Ok"
                /\ last.value \in pipes
                /\ last.value.state = "Inactive"
                /\ last.value.context = last.ctx
                /\ native.kinds[last.value.ptr] = "pipeline"
                /\ Owners(last.ctx) = 1
                /\ last.destroyed = <<>>
                /\ D(last.ctx) = 0
           ELSE /\ last.res = "Err"
                /\ last.value = NoValue
                /\ Owners(last.ctx) = 0
                /\ last.destroyed = <<last.ctx>>
                /\ D(last.ctx) = 1
                /\ native.kinds[last.ctx] = "context"
                /\ \A h \in HandlesOf("pipeline") : h \notin Range(last.destroyed)

\* from_context whose native construction failed.
C18_Witness ==
    /\ last.op = "from_context"
    /\ last.resp = "error"
    /\ D(last.ctx) = 1
    /\ last.value = NoValue


\* The pipeline handle the pending async call works on.
CallPipe == IF call.op = "start_async" THEN call.self.ptr ELSE call.pipe

\* C13: every start_async and wait_async call that is awaited has exactly
\* one thread, spawned when the call is made, working on the call's
\* pipeline. The thread puts one result in the channel, after its native
\* call has returned and the error slot been checked, and does nothing
\* after that. The caller resumes once, when that result is in the
\* channel, and with that result; a thread never goes away without its
\* caller having taken its result, so the caller never finds the channel
\* closed and empty.
C13_OneWorkerOneResult ==
    /\ [](/\ Len(workers) = (IF call.op \in AsyncOps THEN 1 ELSE 0)
          /\ \A i \in 1..Len(workers) :
                LET w == workers[i] IN
                /\ w.awaited
                /\ w.op = call.op
                /\ w.pipe = CallPipe
                /\ w.st = "running" => w.res = ""
                /\ w.st \in {"returned", "sent"} =>
                      /\ w.calls >= 1
                      /\ w.res = Check(w.resp)
                      /\ native.lastcall[2] = w.pipe)
    /\ [][/\ (call.op \notin AsyncOps /\ call'.op \in AsyncOps) =>
                workers' = <<Worker(call'.op, workers'[1].pipe, workers'[1].cfg,
                                    workers'[1].timeout, workers'[1].ms)>>
          /\ \A i \in 1..Len(workers) :
                workers[i].st = "sent" => (workers' = workers \/ workers' = <<>>)
          /\ (call.op \in AsyncOps /\ call'.op \notin AsyncOps) =>
                /\ workers[1].st = "sent"
                /\ workers' = <<>>
                /\ last'.op = call.op
                /\ last'.res = workers[1].res
                /\ last'.resp = workers[1].resp
                /\ call.op = "start_async" => last'.profile = workers[1].val
                /\ call.op = "wait_async" => last'.frame = workers[1].val
          /\ workers' = <<>> => (workers = <<>> \/ call'.op \notin AsyncOps)]_vars

\* The result of an awaited wait_async is in the channel, the caller not
\* yet resumed.
C13_Witness ==
    /\ call.op = "wait_async"
    /\ Len(workers) = 1
    /\ workers[1].st = "sent"
    /\ workers[1].res = "Ok"
    /\ workers[1].val # NULL


\* The header lines read define the macro with a value.
Defines(read, name) ==
    \E i \in 1..Len(read) : read[i].prefix /\ read[i].name = name /\ read[i].version # ""

\* The value the lines read give the macro last; "" without any.
LastValue(read, name) ==
    LET S == {i \in 1..Len(read) :
                 read[i].prefix /\ read[i].name = name /\ read[i].version # ""}
    IN  IF S = {} THEN "" ELSE read[CHOOSE i \in S : \A j \in S : j <= i].version

\* What the scan has found is what the lines read so far say.
ReadAs(read, v) ==
    /\ v.major = LastValue(read, "MAJOR_VERSION")
    /\ v.minor = LastValue(read, "MINOR_VERSION")
    /\ v.patch = LastValue(read, "PATCH_VERSION")
    /\ v.build = LastValue(read, "BUILD_VERSION")

\* C14 as stated: the build script proceeds to binding generation and
\* linking only if a header was found whose reported major version is
\* exactly "2"; with any other reported major version, or when no include
\* directory yields a header defining all four version macros, the build
\* fails.
C14_VersionGate ==
    last.op = "build.rs" =>
        /\ last.outcome = "proceeds" => (last.found /\ last.version.major = "2")
        /\ (~last.found \/ last.version.major # "2") => last.outcome = "failed"

\* C14, amended: built with the doc-only feature the script returns
\* successfully at once, having probed, examined and linked nothing.
\* Otherwise it proceeds to binding generation and linking only if a
\* header was found whose reported major version is exactly "2", and
\* fails with any other reported major version and when no include
\* directory yields a header defining all four version macros. A header
\* is found exactly when its lines have given all four macros a value,
\* the reported version being the values given last.
C14_VersionGateUnlessDocOnly ==
    /\ last.op = "build.rs" =>
          /\ last.docOnly =>
                (last.outcome = "skipped" /\ ~last.found /\ last.examined = 0)
          /\ ~last.docOnly =>
                /\ last.outcome \in {"proceeds", "failed"}
                /\ last.outcome = "proceeds" => (last.found /\ last.version.major = "2")
                /\ (~last.found \/ last.version.major # "2") => last.outcome = "failed"
          /\ last.found =>
                /\ last.probe = "ok"
                /\ last.examined >= 1
                /\ \A n \in MacroNames : Defines(last.read, n)
                /\ ReadAs(last.read, last.version)
          /\ ~last.found => last.version = NoVersion
    /\ (call.op = "build.rs" /\ call.pc = "scan") =>
          /\ \E n \in MacroNames : ~Defines(call.read, n)
          /\ ReadAs(call.read, call.version)

\* The second include path tried has a header that first says major 2,
\* then major 3, and the build fails.
C14_Witness ==
    /\ last.op = "build.rs"
    /\ last.outcome = "failed"
    /\ last.found
    /\ last.examined = 2
    /\ last.version.major = "3"
    /\ last.read[1] = Define("MAJOR_VERSION", "2")


\* ms, an unsigned 32-bit value, is the whole number of milliseconds of d.
ExactMs(d, ms) == d.hi = 0 /\ d.lo = ms

\* C15: wait(Some(d)) and wait_async(Some(d)) hand the native wait the
\* whole number of milliseconds of d as its timeout, whatever d is, a
\* duration of 2^32 ms or more included.
C15_TimeoutPassedUnchanged ==
    /\ (call.op = "wait" /\ call.timeout # None) => ExactMs(call.timeout, call.ms)
    /\ \A i \in 1..Len(workers) :
          (workers[i].op = "wait_async" /\ workers[i].timeout # None) =>
              ExactMs(workers[i].timeout, workers[i].ms)
    /\ (last.op \in {"wait", "wait_async"} /\ last.timeout # None) =>
          /\ native.lastcall = <<"rs2_pipeline_wait_for_frames", last.h, last.ms>>
          /\ ExactMs(last.timeout, last.ms)


\* The caller is inside wait(None).
InWaitNone == call.op = "wait" /\ call.timeout = None

\* C17: wait(None) blocks until the native wait yields something other
\* than a timeout. While it is inside, every native call it has made was
\* the bounded wait of RS2_DEFAULT_TIMEOUT ms on its pipeline and reported
\* a timeout; each further timeout makes it issue one more call; it comes
\* back only with the response of a call that did not time out. With a
\* native layer that reports at most MaxTimeouts timeouts in a row,
\* wait(None) comes back.
C17_WaitNoneBlocksUntilResponse ==
    /\ [](InWaitNone =>
            /\ call.calls = call.timeouts
            /\ call.ms = RS2_DEFAULT_TIMEOUT
            /\ call.calls > 0 =>
                  native.lastcall = <<"rs2_pipeline_wait_for_frames", call.pipe,
                                      RS2_DEFAULT_TIMEOUT>>)
    /\ []((last.op = "wait" /\ last.timeout = None) =>
            /\ last.resp \in {"ok", "error"}
            /\ last.calls = last.timeouts + 1
            /\ last.ms = RS2_DEFAULT_TIMEOUT)
    /\ [][(InWaitNone /\ call'.op = "wait") =>
            /\ call'.calls = call.calls + 1
            /\ call'.timeouts = call.timeouts + 1
            /\ call'.pipe = call.pipe /\ call'.timeout = None]_vars
    /\ (InWaitNone ~> (call = NoCall /\ last.op = "wait" /\ last.timeout = None))

\* wait(None) came back after MaxTimeouts timeouts.
C17_Witness ==
    /\ call = NoCall
    /\ last.op = "wait"
    /\ last.timeout = None
    /\ last.timeouts = MaxTimeouts
    /\ last.calls = MaxTimeouts + 1
    /\ last.res = "Ok"


\* The threads inside the loop of wait_async, a native wait made and the
\* next one to come.
Waiting ==
    {i \in 1..Len(workers) :
        workers[i].op = "wait_async" /\ workers[i].st = "running" /\ workers[i].calls >= 1}

\* C19: whatever the interleaving of the caller and the threads of
\* start_async and wait_async, dropped futures included: no native call is
\* made on a pipeline or config handle that has been destroyed, no thread
\* is waiting on a pipeline that has been destroyed or stopped, and no
\* thread is waiting on a pipeline on which the caller is waiting too.
C19_NoCallOnDeadHandle ==
    /\ \A m \in native.misuse : m[2] # "destroyed"
    /\ \A m \in native.misuse :
          ~(m[1] = "rs2_pipeline_wait_for_frames" /\ m[2] = "not started")
    /\ \A i \in Waiting :
          /\ workers[i].pipe \notin Range(native.deleted)
          /\ workers[i].pipe \in native.started
          /\ ~(call.op = "wait" /\ call.calls >= 1 /\ call.pipe = workers[i].pipe)
          /\ \A j \in Waiting : workers[j].pipe = workers[i].pipe => j = i

\* C20: every profile handle a successful native start returned is held
\* by exactly one owner, the thread or channel that carries it to the
\* caller or then one Active pipeline, until it is destroyed, and is
\* destroyed exactly once, by stop or by the drop of that pipeline; so
\* with start, with start_async, and with a start_async whose future is
\* dropped before the result is received.
C20_ProfileOwnedThenDestroyed ==
    \A h \in HandlesOf("profile") :
        /\ D(h) <= 1
        /\ D(h) + Owners(h) = 1
        /\ \A pv \in pipes : pv.profile = h => pv.state = "Active"


\* C21: when the native stop fails, stop returns an error and no
\* pipeline: the caller holds no pipeline on that handle, Inactive or
\* Active, and the pipeline, context and profile handles, and the config
\* handle if there is one, have each been destroyed exactly once, by this
\* call, the pipeline handle before the others.
C21_StopFailureDropsAll ==
    (last.op = "stop" /\ last.resp = "error") =>
        /\ last.res = "Err"
        /\ last.value = NoValue
        /\ \A pv \in pipes : pv.ptr # last.from.ptr
        /\ native.lastcall = <<"rs2_pipeline_stop", last.from.ptr>>
        /\ AsSet(last.destroyed) =
              {last.from.ptr, last.from.context, last.from.profile}
                  \cup ({last.from.config} \ {NULL})
        /\ Len(last.destroyed) = Cardinality(AsSet(last.destroyed))
        /\ \A h \in AsSet(last.destroyed) : D(h) = 1 /\ Owners(h) = 0
        /\ last.destroyed[1] = last.from.ptr

\* The stop of a pipeline started with a config has failed.
C21_Witness ==
    /\ last.op = "stop"
    /\ last.resp = "error"
    /\ last.from.state = "Active"
    /\ last.from.config # NULL
    /\ Len(last.destroyed) = 4
    /\ D(last.from.config) = 1

====
